---- MODULE Spec2Model ----
(***************************************************************************)
(* The /tangent command of the chat CLI (cli/chat/cli/tangent.rs) as a     *)
(* state machine.                                                          *)
(*                                                                         *)
(* TangentArgs::execute is an async fn: it runs without interruption up to *)
(* an .await, so the handler is modelled as one step per stretch between   *)
(* awaits.  pc is the handler's position:                                  *)
(*   "prompt"     no /tangent command is running (the chat loop prompts)   *)
(*   "summarize"  awaiting compact_tangent_conversation (line 115)         *)
(*   "send"       awaiting send_tangent_mode_session (lines 37-45)         *)
(*   "panicked"   the unwrap() of line 115 hit an Err                      *)
(*                                                                         *)
(* ConversationState (enter_tangent_mode, exit_tangent_mode, ...) is not   *)
(* part of the two source files; its operations are modelled from sections *)
(* 3 and 4.1 of the specification.                                         *)
(*                                                                         *)
(* Environment: writes to session.stderr are taken to succeed, so the `?`  *)
(* after each execute!(...) never returns early.                           *)
(***************************************************************************)
EXTENDS Integers, Sequences, FiniteSets, TLC

VARIABLES
    tangent_enabled,     \* ExperimentManager::is_enabled(os, TangentMode)
    checkpoint_enabled,  \* ExperimentManager::is_enabled(os, Checkpoint)
    conversation,        \* session.conversation: mode, branch_entered_at, checkpoint, transcript
    now,                 \* the wall clock, in seconds
    pc,                  \* position of the running /tangent handler
    subcommand,          \* self.subcommand of the running (or last) command
    duration_seconds,    \* the handler's local `duration_seconds`
    telemetry,           \* calls made to telemetry.send_tangent_mode_session
    send_result,         \* Result of the last awaited send_tangent_mode_session
    stderr,              \* what the running (or last) command printed to session.stderr
    log,                 \* tracing::warn! records of the running (or last) command
    result,              \* what the last command returned
    entry_transcript,    \* history: the transcript when the open branch was entered
    exited_from,         \* history: the conversation as the running exit found it
    tangent_mode_key,    \* os.database.settings: Setting::TangentModeKey
    metadata,            \* the RequestMetadata of the finished request
    metrics,             \* what PerformanceMetrics::calculate returned for it
    formatted            \* what format_comprehensive returned for the metrics

vars == <<tangent_enabled, checkpoint_enabled, conversation, now, pc, subcommand,
          duration_seconds, telemetry, send_result, stderr, log, result,
          entry_transcript, exited_from, tangent_mode_key, metadata, metrics,
          formatted>>

----------------------------------------------------------------------------
(* Bounds of the model *)

\* longest transcript the chat turns build
MaxLen == 2
\* the clock reads 0..MaxClock
MaxClock == 1
\* the session is followed until this many usage events were emitted
MaxEvents == 2

\* the user/assistant exchanges a chat turn can append
Exchanges == {"x1", "x2"}
\* the summaries the summarization collaborator can return
Summaries == {"s1"}

----------------------------------------------------------------------------
(* Option<T>: None is the empty sequence, Some(x) the one-element sequence *)

None == <<>>

Some(x) == <<x>>

is_some(o) == o # None

unwrap_or(o, d) == IF o = None THEN d ELSE o[1]

Contains(s, m) == \E i \in 1..Len(s) : s[i] = m

Last(s) == s[Len(s)]

----------------------------------------------------------------------------
(* Transcript entries *)

Exchange(x) == [kind |-> "exchange", text |-> x]

Summary(s) == [kind |-> "summary", text |-> s]

----------------------------------------------------------------------------
(* session.conversation: the branch state and its operations *)

MainConversation(t) ==
    [mode |-> "Main", branch_entered_at |-> None, checkpoint |-> None, transcript |-> t]

is_in_tangent_mode(c) == c.mode = "Tangent"

\* mutant: the difference is returned as it is, negative when the clock went back
get_tangent_duration_seconds_NoClamp(c, t) ==
    IF c.mode = "Tangent" THEN Some(t - c.branch_entered_at[1]) ELSE None

\* now - branch_entered_at, clamped to zero; None outside Tangent
get_tangent_duration_seconds(c, t) ==
    IF c.mode = "Tangent"
    THEN Some(IF t >= c.branch_entered_at[1] THEN t - c.branch_entered_at[1] ELSE 0)
    ELSE None

enter_tangent_mode(c, t) ==
    [mode |-> "Tangent",
     branch_entered_at |-> Some(t),
     checkpoint |-> Some(c.transcript),
     transcript |-> c.transcript]

\* discard: the transcript is the checkpoint again
exit_tangent_mode(c) ==
    IF c.mode = "Tangent" THEN MainConversation(c.checkpoint[1]) ELSE c

\* the exchanges the branch produced: what the transcript holds past the checkpoint
BranchExchanges(c) ==
    SubSeq(c.transcript, Len(c.checkpoint[1]) + 1, Len(c.transcript))

\* mutant: the tail exit restores the transcript and the mode, the checkpoint stays
exit_tangent_mode_with_tail_KeepsCheckpoint(c) ==
    IF c.mode = "Tangent"
    THEN [mode |-> "Main",
          branch_entered_at |-> None,
          checkpoint |-> c.checkpoint,
          transcript |-> IF BranchExchanges(c) # <<>>
                         THEN Append(c.checkpoint[1], Last(BranchExchanges(c)))
                         ELSE c.checkpoint[1]]
    ELSE c

\* tail: the checkpoint plus the last exchange of the branch, when there is one
exit_tangent_mode_with_tail(c) ==
    IF c.mode = "Tangent"
    THEN MainConversation(
             IF BranchExchanges(c) # <<>>
             THEN Append(c.checkpoint[1], Last(BranchExchanges(c)))
             ELSE c.checkpoint[1])
    ELSE c

\* compact: the checkpoint plus one entry holding the summary
exit_tangent_mode_with_compact(c, s) ==
    IF c.mode = "Tangent"
    THEN MainConversation(Append(c.checkpoint[1], Summary(s)))
    ELSE c

----------------------------------------------------------------------------
(* What the command prints, logs and returns *)

MsgDisabled == "Tangent mode is disabled. Enable it with: q settings chat.enableTangentMode true"

MsgCheckpointWarning == "Checkpoint is disabled while in tangent mode. Please exit tangent mode if you want to use checkpoint."

MsgTailDone == "Restored conversation from checkpoint with last conversation entry preserved."

MsgNeedTail == "You need to be in tangent mode to use tail."

MsgCompactDone == "Tangent conversation compacted and summarized!"

MsgNeedCompact == "You need to be in tangent mode to use /tangent compact."

MsgToggleDone == "Restored conversation from checkpoint. - Returned to main conversation."

\* lines 179-183, up to the shortcut
MsgEntered == "Created a conversation checkpoint. Use "

\* lines 187-194, after the shortcut
MsgRestore == " or /tangent to restore the conversation later. Note: this functionality is experimental and may change or be removed in the future."

WarnTelemetry == "Failed to send tangent mode session telemetry"

PromptUser(skip) == [state |-> "PromptUser", skip_printing_tools |-> skip]

Running == [state |-> "Running", skip_printing_tools |-> FALSE]

Panicked == [state |-> "Panicked", skip_printing_tools |-> FALSE]

\* Err(ChatError), which the handler returns on no path taken here
Failed == [state |-> "Err", skip_printing_tools |-> FALSE]

\* the yellow warning of lines 68-77, 103-112 and 152-161
CheckpointWarning == IF checkpoint_enabled THEN <<MsgCheckpointWarning>> ELSE <<>>

TangentModeSession(d) == [result |-> "Succeeded", duration_seconds |-> d]

----------------------------------------------------------------------------
(* Setting::TangentModeKey and the shortcut shown on entering the branch.   *)
(* A setting is a String, here the sequence of its characters; "e-acute"    *)
(* stands for U+00E9 and "E-acute" for U+00C9, two bytes each in UTF-8.     *)

KeyChars == {"k", "T", "e-acute", "E-acute"}

\* the settings the user can have stored: unset, empty, one or two characters
KeySettings ==
    {None, Some(<<>>)}
        \cup {Some(<<a>>) : a \in KeyChars}
        \cup {Some(<<a, b>>) : a \in {"k"}, b \in {"T", "e-acute"}}

\* char::len_utf8
len_utf8(ch) == IF ch \in {"e-acute", "E-acute"} THEN 2 ELSE 1

\* String::len: the length in bytes
RECURSIVE str_len(_)
str_len(key) == IF key = <<>> THEN 0 ELSE len_utf8(Head(key)) + str_len(Tail(key))

\* char::to_lowercase
to_lowercase(ch) ==
    CASE ch = "T" -> "t"
      [] ch = "E-acute" -> "e-acute"
      [] OTHER -> ch

\* mutant: the setting is taken when it is one character long, whatever its bytes
tangent_key_char_CountsChars ==
    IF tangent_mode_key # None /\ Len(tangent_mode_key[1]) = 1
    THEN Head(tangent_mode_key[1])
    ELSE "t"

\* lines 166-173
tangent_key_char ==
    IF tangent_mode_key # None /\ str_len(tangent_mode_key[1]) = 1
    THEN unwrap_or(IF tangent_mode_key[1] = <<>> THEN None
                   ELSE Some(Head(tangent_mode_key[1])), "t")
    ELSE "t"

\* mutant: the character is shown as it is stored
tangent_key_display_AsStored == "ctrl + " \o tangent_key_char

\* line 174
tangent_key_display == "ctrl + " \o to_lowercase(tangent_key_char)

\* lines 176-196: what the toggle prints on entering
EnteredMessage == <<MsgEntered, tangent_key_display, MsgRestore>>

----------------------------------------------------------------------------
Init ==
    /\ tangent_enabled \in BOOLEAN
    /\ checkpoint_enabled \in BOOLEAN
    /\ conversation = MainConversation(<<>>)
    /\ now \in 0..MaxClock
    /\ pc = "prompt"
    /\ subcommand = "none"
    /\ duration_seconds = 0
    /\ telemetry = <<>>
    /\ send_result = "none"
    /\ stderr = <<>>
    /\ log = <<>>
    /\ result = Running
    /\ entry_transcript = None
    /\ exited_from = None
    /\ tangent_mode_key = None
    /\ metadata = None
    /\ metrics = None
    /\ formatted = None

----------------------------------------------------------------------------
(* History variables: they record, and decide nothing.  entry_transcript is   *)
(* kept from the step that enters the branch until the exiting command has   *)
(* returned; exited_from is kept while the exiting command is running.       *)
History ==
    /\ entry_transcript' =
           IF ~is_in_tangent_mode(conversation) /\ is_in_tangent_mode(conversation')
           THEN Some(conversation.transcript)
           ELSE IF ~is_in_tangent_mode(conversation') /\ pc' = "prompt"
                THEN None
                ELSE entry_transcript
    /\ exited_from' =
           IF is_in_tangent_mode(conversation) /\ ~is_in_tangent_mode(conversation')
           THEN Some(conversation)
           ELSE IF pc' = "prompt" THEN None ELSE exited_from

----------------------------------------------------------------------------
(* The environment of the command *)

\* the wall clock moves; it is not monotonic
Tick ==
    /\ pc # "panicked"
    /\ \E t \in 0..MaxClock : t # now /\ now' = t
    /\ UNCHANGED <<tangent_enabled, checkpoint_enabled, conversation, pc, subcommand,
                   duration_seconds, telemetry, send_result, stderr, log, result>>
    /\ History
    /\ UNCHANGED <<tangent_mode_key, metadata, metrics, formatted>>

\* a chat turn appends one user/assistant exchange to the live transcript
AddExchange ==
    /\ pc = "prompt"
    /\ Len(conversation.transcript) < MaxLen
    /\ \E x \in Exchanges :
           conversation' = [conversation EXCEPT !.transcript = Append(@, Exchange(x))]
    /\ UNCHANGED <<tangent_enabled, checkpoint_enabled, now, pc, subcommand,
                   duration_seconds, telemetry, send_result, stderr, log, result>>
    /\ History
    /\ UNCHANGED <<tangent_mode_key, metadata, metrics, formatted>>

\* `q settings chat.enableTangentMode ...` / the checkpoint experiment is switched
SetExperiment ==
    /\ pc = "prompt"
    /\ \/ tangent_enabled' = ~tangent_enabled /\ UNCHANGED checkpoint_enabled
       \/ checkpoint_enabled' = ~checkpoint_enabled /\ UNCHANGED tangent_enabled
    /\ UNCHANGED <<conversation, now, pc, subcommand, duration_seconds, telemetry,
                   send_result, stderr, log, result>>
    /\ History
    /\ UNCHANGED <<tangent_mode_key, metadata, metrics, formatted>>

----------------------------------------------------------------------------
(* TangentArgs::execute, from the prompt to its first await or its return *)

Commands == {"toggle", "tail", "compact"}

\* lines 53-63: the experiment is off
ExecuteDisabled ==
    /\ stderr' = <<MsgDisabled>>
    /\ result' = PromptUser(TRUE)
    /\ UNCHANGED <<conversation, pc, duration_seconds, telemetry>>

\* mutant: tail prints its confirmation and sends the event, the branch stays open
ExecuteTail_NoExit ==
    IF is_in_tangent_mode(conversation)
    THEN /\ duration_seconds' =
                unwrap_or(get_tangent_duration_seconds(conversation, now), 0)
         /\ telemetry' = Append(telemetry, TangentModeSession(duration_seconds'))
         /\ pc' = "send"
         /\ stderr' = CheckpointWarning
         /\ result' = Running
         /\ UNCHANGED conversation
    ELSE /\ stderr' = CheckpointWarning \o <<MsgNeedTail>>
         /\ result' = PromptUser(FALSE)
         /\ UNCHANGED <<conversation, pc, duration_seconds, telemetry>>

\* mutant: tail leaves the branch the way the toggle does, the last exchange is lost
ExecuteTail_Discard ==
    IF is_in_tangent_mode(conversation)
    THEN /\ duration_seconds' =
                unwrap_or(get_tangent_duration_seconds(conversation, now), 0)
         /\ conversation' = exit_tangent_mode(conversation)
         /\ telemetry' = Append(telemetry, TangentModeSession(duration_seconds'))
         /\ pc' = "send"
         /\ stderr' = CheckpointWarning
         /\ result' = Running
    ELSE /\ stderr' = CheckpointWarning \o <<MsgNeedTail>>
         /\ result' = PromptUser(FALSE)
         /\ UNCHANGED <<conversation, pc, duration_seconds, telemetry>>

\* lines 66-101: /tangent tail
ExecuteTail ==
    IF is_in_tangent_mode(conversation)
    THEN /\ duration_seconds' =
                unwrap_or(get_tangent_duration_seconds(conversation, now), 0)
         /\ conversation' = exit_tangent_mode_with_tail(conversation)
         /\ telemetry' = Append(telemetry, TangentModeSession(duration_seconds'))
         /\ pc' = "send"
         /\ stderr' = CheckpointWarning
         /\ result' = Running
    ELSE /\ stderr' = CheckpointWarning \o <<MsgNeedTail>>
         /\ result' = PromptUser(FALSE)
         /\ UNCHANGED <<conversation, pc, duration_seconds, telemetry>>

\* mutant: compact without the is_in_tangent_mode() test of line 113
ExecuteCompact_NoModeCheck ==
    /\ duration_seconds' =
           unwrap_or(get_tangent_duration_seconds(conversation, now), 0)
    /\ pc' = "summarize"
    /\ stderr' = CheckpointWarning
    /\ result' = Running
    /\ UNCHANGED <<conversation, telemetry>>

\* mutant: the branch is closed before the summary of line 115 is awaited
ExecuteCompact_ExitFirst ==
    IF is_in_tangent_mode(conversation)
    THEN /\ duration_seconds' =
                unwrap_or(get_tangent_duration_seconds(conversation, now), 0)
         /\ conversation' = exit_tangent_mode(conversation)
         /\ pc' = "summarize"
         /\ stderr' = CheckpointWarning
         /\ result' = Running
         /\ UNCHANGED telemetry
    ELSE /\ stderr' = CheckpointWarning \o <<MsgNeedCompact>>
         /\ result' = PromptUser(FALSE)
         /\ UNCHANGED <<conversation, pc, duration_seconds, telemetry>>

\* lines 102-133: /tangent compact, up to the await of the summary
ExecuteCompact ==
    IF is_in_tangent_mode(conversation)
    THEN /\ duration_seconds' =
                unwrap_or(get_tangent_duration_seconds(conversation, now), 0)
         /\ pc' = "summarize"
         /\ stderr' = CheckpointWarning
         /\ result' = Running
         /\ UNCHANGED <<conversation, telemetry>>
    ELSE /\ stderr' = CheckpointWarning \o <<MsgNeedCompact>>
         /\ result' = PromptUser(FALSE)
         /\ UNCHANGED <<conversation, pc, duration_seconds, telemetry>>

\* mutant: the duration is read after exit_tangent_mode(), lines 136 and 137 swapped
ExecuteToggle_ReadAfterExit ==
    IF is_in_tangent_mode(conversation)
    THEN /\ conversation' = exit_tangent_mode(conversation)
         /\ duration_seconds' =
                unwrap_or(get_tangent_duration_seconds(conversation', now), 0)
         /\ telemetry' = Append(telemetry, TangentModeSession(duration_seconds'))
         /\ pc' = "send"
         /\ stderr' = <<>>
         /\ result' = Running
    ELSE /\ conversation' = enter_tangent_mode(conversation, now)
         /\ stderr' = CheckpointWarning \o EnteredMessage
         /\ result' = PromptUser(FALSE)
         /\ UNCHANGED <<pc, duration_seconds, telemetry>>

\* mutant: the send of line 138 starts before exit_tangent_mode() of line 137
ExecuteToggle_SendFirst ==
    IF is_in_tangent_mode(conversation)
    THEN /\ duration_seconds' =
                unwrap_or(get_tangent_duration_seconds(conversation, now), 0)
         /\ telemetry' = Append(telemetry, TangentModeSession(duration_seconds'))
         /\ pc' = "send"
         /\ stderr' = <<>>
         /\ result' = Running
         /\ UNCHANGED conversation
    ELSE /\ conversation' = enter_tangent_mode(conversation, now)
         /\ stderr' = CheckpointWarning \o EnteredMessage
         /\ result' = PromptUser(FALSE)
         /\ UNCHANGED <<pc, duration_seconds, telemetry>>

\* mutant: the toggle leaves the branch the way `tail` does
ExecuteToggle_ExitWithTail ==
    IF is_in_tangent_mode(conversation)
    THEN /\ duration_seconds' =
                unwrap_or(get_tangent_duration_seconds(conversation, now), 0)
         /\ conversation' = exit_tangent_mode_with_tail(conversation)
         /\ telemetry' = Append(telemetry, TangentModeSession(duration_seconds'))
         /\ pc' = "send"
         /\ stderr' = <<>>
         /\ result' = Running
    ELSE /\ conversation' = enter_tangent_mode(conversation, now)
         /\ stderr' = CheckpointWarning \o EnteredMessage
         /\ result' = PromptUser(FALSE)
         /\ UNCHANGED <<pc, duration_seconds, telemetry>>

\* mutant: the toggle enters without the is_in_tangent_mode() test of line 135
ExecuteToggle_AlwaysEnter ==
    /\ conversation' = enter_tangent_mode(conversation, now)
    /\ stderr' = CheckpointWarning \o EnteredMessage
    /\ result' = PromptUser(FALSE)
    /\ UNCHANGED <<pc, duration_seconds, telemetry>>

\* lines 134-198: /tangent
ExecuteToggle ==
    IF is_in_tangent_mode(conversation)
    THEN /\ duration_seconds' =
                unwrap_or(get_tangent_duration_seconds(conversation, now), 0)
         /\ conversation' = exit_tangent_mode(conversation)
         /\ telemetry' = Append(telemetry, TangentModeSession(duration_seconds'))
         /\ pc' = "send"
         /\ stderr' = <<>>
         /\ result' = Running
    ELSE /\ conversation' = enter_tangent_mode(conversation, now)
         /\ stderr' = CheckpointWarning \o EnteredMessage
         /\ result' = PromptUser(FALSE)
         /\ UNCHANGED <<pc, duration_seconds, telemetry>>

\* mutant: the experiment is tested on the toggle only, not on the subcommands
Execute_GateOnlyToggle(cmd) ==
    /\ pc = "prompt"
    /\ Len(telemetry) < MaxEvents
    /\ subcommand' = cmd
    /\ send_result' = "none"
    /\ log' = <<>>
    /\ CASE cmd = "tail" -> ExecuteTail
         [] cmd = "compact" -> ExecuteCompact
         [] OTHER -> IF ~tangent_enabled THEN ExecuteDisabled ELSE ExecuteToggle
    /\ UNCHANGED <<tangent_enabled, checkpoint_enabled, now>>
    /\ History
    /\ UNCHANGED <<tangent_mode_key, metadata, metrics, formatted>>

\* lines 51-65: the command starts and is dispatched on self.subcommand
Execute(cmd) ==
    /\ pc = "prompt"
    /\ Len(telemetry) < MaxEvents
    /\ subcommand' = cmd
    /\ send_result' = "none"
    /\ log' = <<>>
    /\ IF ~tangent_enabled THEN ExecuteDisabled
       ELSE CASE cmd = "tail" -> ExecuteTail
              [] cmd = "compact" -> ExecuteCompact
              [] OTHER -> ExecuteToggle
    /\ UNCHANGED <<tangent_enabled, checkpoint_enabled, now>>
    /\ History
    /\ UNCHANGED <<tangent_mode_key, metadata, metrics, formatted>>

----------------------------------------------------------------------------
(* The awaits of the handler *)

\* mutant: the summary is dropped, the branch is closed by exit_tangent_mode()
Summarized_NoSummary ==
    /\ pc = "summarize"
    /\ conversation' = exit_tangent_mode(conversation)
    /\ telemetry' = Append(telemetry, TangentModeSession(duration_seconds))
    /\ pc' = "send"
    /\ UNCHANGED <<tangent_enabled, checkpoint_enabled, now, subcommand,
                   duration_seconds, send_result, stderr, log, result>>
    /\ History
    /\ UNCHANGED <<tangent_mode_key, metadata, metrics, formatted>>

\* lines 115-117: the summary arrives, the branch is closed with it, the send starts
Summarized ==
    /\ pc = "summarize"
    /\ \E s \in Summaries :
           conversation' = exit_tangent_mode_with_compact(conversation, s)
    /\ telemetry' = Append(telemetry, TangentModeSession(duration_seconds))
    /\ pc' = "send"
    /\ UNCHANGED <<tangent_enabled, checkpoint_enabled, now, subcommand,
                   duration_seconds, send_result, stderr, log, result>>
    /\ History
    /\ UNCHANGED <<tangent_mode_key, metadata, metrics, formatted>>

\* line 115: the summary is an Err and unwrap() panics
SummarizeFailed ==
    /\ pc = "summarize"
    /\ pc' = "panicked"
    /\ result' = Panicked
    /\ UNCHANGED <<tangent_enabled, checkpoint_enabled, conversation, now, subcommand,
                   duration_seconds, telemetry, send_result, stderr, log>>
    /\ History
    /\ UNCHANGED <<tangent_mode_key, metadata, metrics, formatted>>

\* the confirmation of lines 83-92, 119-124 and 140-149
Confirmation(cmd) ==
    CASE cmd = "tail" -> MsgTailDone
      [] cmd = "compact" -> MsgCompactDone
      [] OTHER -> MsgToggleDone

\* lines 37-45 return Ok: the confirmation is printed and the command returns (line 201)
TelemetrySent ==
    /\ pc = "send"
    /\ send_result' = "Ok"
    /\ stderr' = Append(stderr, Confirmation(subcommand))
    /\ result' = PromptUser(FALSE)
    /\ pc' = "prompt"
    /\ duration_seconds' = 0
    /\ UNCHANGED <<tangent_enabled, checkpoint_enabled, conversation, now, subcommand,
                   telemetry, log>>
    /\ History
    /\ UNCHANGED <<tangent_mode_key, metadata, metrics, formatted>>

\* mutant: the Err of the send is returned with `?` instead of being logged
TelemetryFailed_Propagates ==
    /\ pc = "send"
    /\ send_result' = "Err"
    /\ result' = Failed
    /\ pc' = "prompt"
    /\ duration_seconds' = 0
    /\ UNCHANGED <<tangent_enabled, checkpoint_enabled, conversation, now, subcommand,
                   telemetry, stderr, log>>
    /\ History
    /\ UNCHANGED <<tangent_mode_key, metadata, metrics, formatted>>

\* lines 37-48 return Err: it is logged, then as TelemetrySent
TelemetryFailed ==
    /\ pc = "send"
    /\ send_result' = "Err"
    /\ log' = Append(log, WarnTelemetry)
    /\ stderr' = Append(stderr, Confirmation(subcommand))
    /\ result' = PromptUser(FALSE)
    /\ pc' = "prompt"
    /\ duration_seconds' = 0
    /\ UNCHANGED <<tangent_enabled, checkpoint_enabled, conversation, now, subcommand,
                   telemetry>>
    /\ History
    /\ UNCHANGED <<tangent_mode_key, metadata, metrics, formatted>>

\* `q settings chat.tangentModeKey ...`: the stored shortcut is changed or removed
SetTangentModeKey ==
    /\ pc = "prompt"
    /\ \E k \in KeySettings : k # tangent_mode_key /\ tangent_mode_key' = k
    /\ UNCHANGED <<tangent_enabled, checkpoint_enabled, conversation, now, pc,
                   subcommand, duration_seconds, telemetry, send_result, stderr, log,
                   result, metadata, metrics, formatted>>
    /\ History

----------------------------------------------------------------------------
Next ==
    \/ \E cmd \in Commands : Execute(cmd)
    \/ Summarized
    \/ SummarizeFailed
    \/ TelemetrySent
    \/ TelemetryFailed
    \/ Tick
    \/ AddExchange
    \/ SetExperiment

Spec == Init /\ [][Next]_vars

(* The session with a stored shortcut: the user toggles the branch and      *)
(* changes the setting between commands.                                    *)
KeyInit ==
    /\ tangent_enabled \in BOOLEAN
    /\ checkpoint_enabled \in BOOLEAN
    /\ conversation = MainConversation(<<>>)
    /\ now \in 0..MaxClock
    /\ pc = "prompt"
    /\ subcommand = "none"
    /\ duration_seconds = 0
    /\ telemetry = <<>>
    /\ send_result = "none"
    /\ stderr = <<>>
    /\ log = <<>>
    /\ result = Running
    /\ entry_transcript = None
    /\ exited_from = None
    /\ tangent_mode_key \in KeySettings
    /\ metadata = None
    /\ metrics = None
    /\ formatted = None

KeyNext ==
    \/ Execute("toggle")
    \/ TelemetrySent
    \/ TelemetryFailed
    \/ SetTangentModeKey
    \/ Tick

KeySpec == KeyInit /\ [][KeyNext]_vars

----------------------------------------------------------------------------
(* PerformanceMetrics (cli/chat/performance.rs)                             *)
(*                                                                          *)
(* u64 and usize values are 0..MaxU64.  An f64 is modelled by the rational  *)
(* it stands for, in lowest terms, or by inf or NaN: the rounding of the    *)
(* floating-point operations is left out.                                   *)

\* the largest u64 (and usize) of the model
MaxU64 == 4095

\* mutant: the difference is taken modulo 2^64, as wrapping_sub or `-` in a release build
saturating_sub_Wrapping(a, b) == (a - b) % (MaxU64 + 1)

\* u64::saturating_sub
saturating_sub(a, b) == IF a >= b THEN a - b ELSE 0

RECURSIVE gcd(_, _)
gcd(a, b) == IF b = 0 THEN a ELSE gcd(b, a % b)

\* the f64 n/d, n >= 0 and d > 0
Finite(n, d) == [kind |-> "finite", num |-> n \div gcd(n, d), den |-> d \div gcd(n, d)]

Inf == [kind |-> "inf", num |-> 1, den |-> 0]

NaN == [kind |-> "nan", num |-> 0, den |-> 0]

\* `n as f64`
as_f64(n) == Finite(n, 1)

\* a / b on f64 values that are not negative
f64_div(a, b) ==
    IF a.kind # "finite" \/ b.kind # "finite" THEN NaN
    ELSE IF b.num = 0 THEN (IF a.num = 0 THEN NaN ELSE Inf)
    ELSE Finite(a.num * b.den, a.den * b.num)

\* the timestamps, token times and token counts of the samples
Timestamps == {0, 1000, 1500, 3000, MaxU64}

TokenTimes == {0, 500, 2500, MaxU64}

TokenCounts == {0, 1, 20, 100, MaxU64}

OptionOf(S) == {None} \cup {Some(x) : x \in S}

\* parser::TokenMetrics, the fields calculate reads
TokenMetrics ==
    [total_tokens : TokenCounts,
     prompt_tokens : TokenCounts,
     time_to_first_token_ms : OptionOf(TokenTimes),
     time_to_last_token_ms : OptionOf(TokenTimes)]

\* parser::RequestMetadata, the fields calculate reads
RequestMetadata ==
    [request_start_timestamp_ms : Timestamps,
     stream_end_timestamp_ms : Timestamps,
     token_metrics : OptionOf(TokenMetrics)]

\* mutant: the division of line 47 without the test of line 46
tokens_per_second_NoGuard(total_tokens, generation_time_ms) ==
    f64_div(as_f64(total_tokens), f64_div(as_f64(generation_time_ms), as_f64(1000)))

\* lines 46-50
tokens_per_second(total_tokens, generation_time_ms) ==
    IF generation_time_ms > 0
    THEN f64_div(as_f64(total_tokens),
                 f64_div(as_f64(generation_time_ms), as_f64(1000)))
    ELSE as_f64(0)

\* mutant: the test of line 53 is total_tokens > 0
average_inter_token_latency_ms_OffByOne(total_tokens, generation_time_ms) ==
    IF total_tokens > 0
    THEN f64_div(as_f64(generation_time_ms), as_f64(saturating_sub(total_tokens, 1)))
    ELSE as_f64(0)

\* lines 53-57
average_inter_token_latency_ms(total_tokens, generation_time_ms) ==
    IF total_tokens > 1
    THEN f64_div(as_f64(generation_time_ms), as_f64(saturating_sub(total_tokens, 1)))
    ELSE as_f64(0)

\* lines 40-43
generation_time_ms(tm) ==
    saturating_sub(
        unwrap_or(tm.time_to_last_token_ms, tm.time_to_first_token_ms[1]),
        tm.time_to_first_token_ms[1])

\* lines 62-71
Metrics(md, tm) ==
    [tokens_per_second |-> tokens_per_second(tm.total_tokens, generation_time_ms(tm)),
     time_to_first_token_ms |-> tm.time_to_first_token_ms[1],
     total_duration_ms |->
         saturating_sub(md.stream_end_timestamp_ms, md.request_start_timestamp_ms),
     prompt_processing_time_ms |-> Some(tm.time_to_first_token_ms[1]),
     generation_time_ms |-> generation_time_ms(tm),
     average_inter_token_latency_ms |->
         average_inter_token_latency_ms(tm.total_tokens, generation_time_ms(tm)),
     total_tokens |-> tm.total_tokens,
     prompt_tokens |-> tm.prompt_tokens]

\* mutant: time_to_last_token_ms is required too
calculate_RequiresLastToken(md) ==
    IF md.token_metrics = None THEN None
    ELSE IF md.token_metrics[1].time_to_first_token_ms = None THEN None
    ELSE IF md.token_metrics[1].time_to_last_token_ms = None THEN None
    ELSE Some(Metrics(md, md.token_metrics[1]))

\* lines 28-72: PerformanceMetrics::calculate
calculate(md) ==
    IF md.token_metrics = None THEN None
    ELSE IF md.token_metrics[1].time_to_first_token_ms = None THEN None
    ELSE Some(Metrics(md, md.token_metrics[1]))

\* "{:.1}": the tenths the value is shown with; up says which way a tie goes
Fixed1(f, up) ==
    IF f.kind # "finite" THEN [kind |-> f.kind, tenths |-> 0]
    ELSE LET q == (10 * f.num) \div f.den
             r == (10 * f.num) % f.den
         IN  [kind |-> "finite",
              tenths |-> IF 2 * r > f.den \/ (2 * r = f.den /\ up) THEN q + 1 ELSE q]

\* mutant: the completion count is total - prompt modulo 2^64
completion_tokens_Wrapping(m) ==
    saturating_sub_Wrapping(m.total_tokens, m.prompt_tokens)

\* line 87
completion_tokens(m) == saturating_sub(m.total_tokens, m.prompt_tokens)

\* lines 77-95: PerformanceMetrics::format_comprehensive, the values it prints
format_comprehensive(m, up) ==
    [tokens_per_sec |-> Fixed1(m.tokens_per_second, up),
     ttft_ms |-> m.time_to_first_token_ms,
     total_duration_s |-> Fixed1(f64_div(as_f64(m.total_duration_ms), as_f64(1000)), up),
     generation_time_ms |-> m.generation_time_ms,
     avg_inter_token_latency_ms |-> Fixed1(m.average_inter_token_latency_ms, up),
     total_tokens |-> m.total_tokens,
     prompt_tokens |-> m.prompt_tokens,
     completion_tokens |-> completion_tokens(m),
     prompt_processing_ms |-> m.prompt_processing_time_ms]

\* one finished request, its metrics not yet asked for
PerfInit ==
    /\ tangent_enabled = FALSE
    /\ checkpoint_enabled = FALSE
    /\ conversation = MainConversation(<<>>)
    /\ now = 0
    /\ pc = "prompt"
    /\ subcommand = "none"
    /\ duration_seconds = 0
    /\ telemetry = <<>>
    /\ send_result = "none"
    /\ stderr = <<>>
    /\ log = <<>>
    /\ result = Running
    /\ entry_transcript = None
    /\ exited_from = None
    /\ tangent_mode_key = None
    /\ metadata \in {Some(md) : md \in RequestMetadata}
    /\ metrics = None
    /\ formatted = None

\* the session asks for the metrics of the finished request
Calculate ==
    /\ metadata # None
    /\ metrics = None
    /\ metrics' = Some(calculate(metadata[1]))
    /\ UNCHANGED <<tangent_enabled, checkpoint_enabled, conversation, now, pc,
                   subcommand, duration_seconds, telemetry, send_result, stderr, log,
                   result, entry_transcript, exited_from, tangent_mode_key, metadata,
                   formatted>>

\* the metrics are shown
FormatComprehensive ==
    /\ metrics # None
    /\ metrics[1] # None
    /\ formatted = None
    /\ \E up \in BOOLEAN : formatted' = Some(format_comprehensive(metrics[1][1], up))
    /\ UNCHANGED <<tangent_enabled, checkpoint_enabled, conversation, now, pc,
                   subcommand, duration_seconds, telemetry, send_result, stderr, log,
                   result, entry_transcript, exited_from, tangent_mode_key, metadata,
                   metrics>>

PerfNext ==
    \/ Calculate
    \/ FormatComprehensive

PerfSpec == PerfInit /\ [][PerfNext]_vars

----------------------------------------------------------------------------
(* The claims *)

InTangent == is_in_tangent_mode(conversation)

\* the flag is on and the running step is the start of command cmd
Issued(cmd) == tangent_enabled /\ Execute(cmd)

\* what duration_seconds() returns in the current state
Duration == get_tangent_duration_seconds(conversation, now)

\* the last command was accepted as an exit and is over
ExitEnded(cmd) ==
    /\ subcommand = cmd
    /\ pc \in {"prompt", "panicked"}
    /\ result # Running
    /\ ~Contains(stderr, MsgDisabled)
    /\ ~Contains(stderr, MsgNeedTail)
    /\ ~Contains(stderr, MsgNeedCompact)
    /\ ~Contains(stderr, MsgEntered)

(* C1, as stated: with the flag on, the toggle issued in Main moves the     *)
(* conversation to Tangent and toggle, tail or compact issued in Tangent    *)
(* move it back to Main: once such an exiting command is over, the          *)
(* conversation is in Main.                                                 *)
C1_ExitCommandEndsInMain ==
    \A cmd \in Commands : ExitEnded(cmd) => ~InTangent

(* C1, amended: the toggle issued in Main enters Tangent; toggle and tail   *)
(* issued in Tangent leave it in that step; compact issued in Tangent       *)
(* leaves it when its summary arrives and stays in Tangent when the         *)
(* summarization fails; is_in_tangent_mode() changes in no other step, so   *)
(* it is false before the entering command, true from it to the exit, and   *)
(* false after.                                                             *)
C1_TangentTransitions ==
    [][/\ Issued("toggle") /\ ~InTangent => InTangent'
       /\ Issued("toggle") /\ InTangent => ~InTangent'
       /\ Issued("tail") /\ InTangent => ~InTangent'
       /\ Issued("compact") /\ InTangent => InTangent' /\ pc' = "summarize"
       /\ pc = "summarize" /\ pc' = "send" => InTangent /\ ~InTangent'
       /\ pc = "summarize" /\ pc' = "panicked" => InTangent /\ InTangent'
       /\ InTangent' # InTangent =>
              \/ Issued("toggle")
              \/ Issued("tail") /\ InTangent
              \/ pc = "summarize" /\ pc' = "send" /\ subcommand = "compact"
      ]_vars

\* C1 witness: two branches were opened and closed, the second one by compact
C1_Witness ==
    /\ ExitEnded("compact")
    /\ ~InTangent
    /\ Len(telemetry) = 2

(* C2: with the TangentMode flag off every /tangent command, in Main or in  *)
(* Tangent, leaves the conversation (mode, branch_entered_at, checkpoint,   *)
(* transcript) unchanged, emits no usage event and returns PromptUser.      *)
C2_DisabledChangesNothing ==
    [][\A cmd \in Commands :
           ~tangent_enabled /\ Execute(cmd) =>
               /\ conversation' = conversation
               /\ telemetry' = telemetry
               /\ Contains(stderr', MsgDisabled)
               /\ pc' = "prompt"
               /\ result' = PromptUser(TRUE)
      ]_vars

\* C2 witness: a subcommand was turned down, flag off, inside an open branch
C2_Witness ==
    /\ ~tangent_enabled
    /\ subcommand = "compact"
    /\ Contains(stderr, MsgDisabled)
    /\ InTangent
    /\ result = PromptUser(TRUE)

(* C3: with the flag on, tail or compact issued in Main prints its 'need    *)
(* to be in tangent mode' message, leaves the conversation unchanged,       *)
(* emits no usage event and returns PromptUser, not an error.               *)
C3_ExitInMainIsRejected ==
    [][/\ Issued("tail") /\ ~InTangent => Contains(stderr', MsgNeedTail)
       /\ Issued("compact") /\ ~InTangent => Contains(stderr', MsgNeedCompact)
       /\ \A cmd \in {"tail", "compact"} :
              Issued(cmd) /\ ~InTangent =>
                  /\ conversation' = conversation
                  /\ telemetry' = telemetry
                  /\ pc' = "prompt"
                  /\ result' = PromptUser(FALSE)
      ]_vars

\* C3 witness: compact was rejected in Main on a transcript that holds exchanges
C3_Witness ==
    /\ subcommand = "compact"
    /\ Contains(stderr, MsgNeedCompact)
    /\ ~InTangent
    /\ conversation.checkpoint = None
    /\ Len(conversation.transcript) = 2
    /\ result = PromptUser(FALSE)

(* C4: every step that leaves Tangent appends exactly one usage event and   *)
(* no other step appends or removes one, so the events count the exits; the *)
(* event carries the duration the handler read while the conversation was   *)
(* in Tangent (for compact: before the summary was awaited).                *)
C4_OneEventPerExit ==
    [][/\ InTangent /\ ~InTangent' =>
              telemetry' = Append(telemetry, TangentModeSession(
                  IF pc = "summarize" THEN duration_seconds
                  ELSE unwrap_or(Duration, 0)))
       /\ ~(InTangent /\ ~InTangent') => telemetry' = telemetry
       /\ pc = "prompt" /\ pc' = "summarize" =>
              InTangent /\ duration_seconds' = unwrap_or(Duration, 0)
       /\ pc = "summarize" /\ pc' = "summarize" => duration_seconds' = duration_seconds
      ]_vars

\* C4 witness: two exits, two events; the second was read one second into the branch
C4_Witness ==
    /\ pc = "prompt"
    /\ ~InTangent
    /\ Len(telemetry) = 2
    /\ telemetry[2].duration_seconds = 1
    /\ subcommand = "toggle"

\* the conversation an exit by cmd makes of conversation c
Exited(cmd, c) ==
    CASE cmd = "tail" -> {exit_tangent_mode_with_tail(c)}
      [] cmd = "compact" -> {exit_tangent_mode_with_compact(c, s) : s \in Summaries}
      [] OTHER -> {exit_tangent_mode(c)}

(* C5: while the usage event is being sent the exit is already committed:   *)
(* the mode is Main, the branch state is cleared and the transcript is the  *)
(* one the exit makes of the branch.                                        *)
C5_SendAfterCommit ==
    pc = "send" =>
        /\ ~InTangent
        /\ exited_from # None
        /\ is_in_tangent_mode(exited_from[1])
        /\ conversation \in Exited(subcommand, exited_from[1])

\* C5 witness: the send of a tail exit is in flight, the branch held two exchanges
C5_Witness ==
    /\ pc = "send"
    /\ subcommand = "tail"
    /\ Len(BranchExchanges(exited_from[1])) = 2
    /\ conversation.transcript = <<Exchange("x2")>>

(* C6: when the send of the usage event fails, a warning is logged and      *)
(* nothing else differs from a send that succeeds: the conversation stays   *)
(* as the exit left it, in Main, the confirmation is printed and the        *)
(* command returns PromptUser.                                              *)
C6_SendFailureIsLogged ==
    [][pc = "send" /\ pc' # "send" =>
           /\ send_result' \in {"Ok", "Err"}
           /\ conversation' = conversation
           /\ ~InTangent'
           /\ stderr' = Append(stderr, Confirmation(subcommand))
           /\ result' = PromptUser(FALSE)
           /\ pc' = "prompt"
           /\ log' = IF send_result' = "Err" THEN Append(log, WarnTelemetry) ELSE log
      ]_vars

\* C6 witness: a compact exit whose send failed has returned
C6_Witness ==
    /\ send_result = "Err"
    /\ pc = "prompt"
    /\ subcommand = "compact"
    /\ log = <<WarnTelemetry>>
    /\ Contains(stderr, MsgCompactDone)
    /\ ~InTangent
    /\ result = PromptUser(FALSE)

(* C7: with TangentMode and Checkpoint both on, every tangent operation     *)
(* (toggle-enter, toggle-exit, tail, compact) prints the incompatible-      *)
(* feature warning.                                                         *)
C7_WarningOnEveryOperation ==
    [][\A cmd \in Commands :
           Issued(cmd) /\ checkpoint_enabled => Contains(stderr', MsgCheckpointWarning)
      ]_vars

(* C8: branch_entered_at and checkpoint are both present in Tangent and     *)
(* both absent in Main, in every state, the ones inside a running command   *)
(* included.                                                                *)
C8_BranchStateIffTangent ==
    /\ InTangent =>
           is_some(conversation.branch_entered_at) /\ is_some(conversation.checkpoint)
    /\ ~InTangent =>
           conversation.branch_entered_at = None /\ conversation.checkpoint = None

\* C8 witness: a branch that was entered, grew and is being left by compact
C8_Witness ==
    /\ InTangent
    /\ pc = "summarize"
    /\ conversation.checkpoint = Some(<<Exchange("x1")>>)
    /\ conversation.branch_entered_at = Some(1)
    /\ Len(conversation.transcript) = 2
    /\ Len(telemetry) = 1

C10_DiscardRoundTrip ==
    [][Issued("toggle") /\ InTangent =>
           /\ entry_transcript # None
           /\ conversation' = MainConversation(entry_transcript[1])
      ]_vars

\* C10 witness: a branch entered on one exchange and grown by another was discarded
C10_Witness ==
    /\ pc = "send"
    /\ subcommand = "toggle"
    /\ exited_from # None
    /\ BranchExchanges(exited_from[1]) = <<Exchange("x1")>>
    /\ entry_transcript = Some(<<Exchange("x2")>>)
    /\ conversation = MainConversation(<<Exchange("x2")>>)

(* C11: the tail exit makes the transcript the one of the entry followed by *)
(* the last exchange the branch produced, and the one of the entry alone    *)
(* when the branch produced none.                                           *)
C11_TailKeepsLastExchange ==
    [][Issued("tail") /\ InTangent =>
           /\ entry_transcript # None
           /\ conversation' = MainConversation(
                  IF Len(conversation.transcript) > Len(entry_transcript[1])
                  THEN Append(entry_transcript[1], Last(conversation.transcript))
                  ELSE entry_transcript[1])
      ]_vars

\* C11 witness: a branch that produced no exchange was left by tail
C11_Witness ==
    /\ pc = "send"
    /\ subcommand = "tail"
    /\ exited_from # None
    /\ BranchExchanges(exited_from[1]) = <<>>
    /\ entry_transcript = Some(<<Exchange("x1"), Exchange("x2")>>)
    /\ conversation = MainConversation(<<Exchange("x1"), Exchange("x2")>>)

(* C12: the compact exit makes the transcript the one of the entry followed *)
(* by one entry holding the summary, whatever the branch produced.          *)
C12_CompactAppendsSummary ==
    [][pc = "summarize" /\ pc' = "send" =>
           /\ entry_transcript # None
           /\ \E s \in Summaries :
                  conversation' =
                      MainConversation(Append(entry_transcript[1], Summary(s)))
      ]_vars

\* C12 witness: a branch that produced two exchanges was compacted
C12_Witness ==
    /\ pc = "send"
    /\ subcommand = "compact"
    /\ exited_from # None
    /\ Len(BranchExchanges(exited_from[1])) = 2
    /\ conversation = MainConversation(<<Summary("s1")>>)

(* C18: the handler calls enter only in Main and an exit only in Tangent    *)
(* (the entry is the step that prints the checkpoint-created message, an    *)
(* exit is the step that starts the usage event), so no step goes from      *)
(* Tangent to Tangent with another checkpoint or entry time.                *)
C18_NoReentry ==
    [][/\ Execute("toggle") /\ Contains(stderr', MsgEntered) =>
              ~InTangent /\ InTangent'
       /\ telemetry' # telemetry => InTangent /\ ~InTangent'
       /\ InTangent /\ InTangent' =>
              /\ conversation'.checkpoint = conversation.checkpoint
              /\ conversation'.branch_entered_at = conversation.branch_entered_at
      ]_vars

\* C18 witness: in a branch that grew, later than its entry, a second branch of the session
C18_Witness ==
    /\ InTangent
    /\ pc = "prompt"
    /\ subcommand = "toggle"
    /\ Contains(stderr, MsgEntered)
    /\ Len(telemetry) = 1
    /\ conversation.checkpoint = Some(<<Exchange("x1")>>)
    /\ conversation.branch_entered_at = Some(1)

(* C19: compact awaits the summary with the branch untouched; when the      *)
(* summarization fails the command stops there: the mode is Tangent, the    *)
(* conversation (checkpoint and transcript included) is as the command      *)
(* found it and no usage event was emitted.                                 *)
C19_SummaryBeforeExit ==
    [][/\ Issued("compact") /\ InTangent =>
              /\ pc' = "summarize"
              /\ conversation' = conversation
              /\ telemetry' = telemetry
       /\ pc = "summarize" /\ pc' # "send" =>
              /\ InTangent'
              /\ conversation' = conversation
              /\ telemetry' = telemetry
       /\ pc = "summarize" /\ pc' # "summarize" => pc' \in {"send", "panicked"}
       /\ pc' = "panicked" => InTangent' /\ result' = Panicked
      ]_vars

\* C19 witness: the summarization of a branch holding one exchange failed
C19_Witness ==
    /\ pc = "panicked"
    /\ subcommand = "compact"
    /\ InTangent
    /\ conversation.checkpoint = Some(<<Exchange("x1")>>)
    /\ conversation.transcript = <<Exchange("x1"), Exchange("x2")>>
    /\ telemetry = <<>>

\* the piece of the entry message that names the shortcut with character ch
Shortcut(ch) == "ctrl + " \o ch

(* C20, as stated: the shortcut character shown on entering Tangent is the  *)
(* TangentModeKey setting when the setting is exactly one character, and    *)
(* 't' when it is unset, empty or longer than one character.                *)
C20_SettingShownAsStored ==
    [][Issued("toggle") /\ ~InTangent =>
           Contains(stderr', Shortcut(
               IF tangent_mode_key # None /\ Len(tangent_mode_key[1]) = 1
               THEN tangent_mode_key[1][1]
               ELSE "t"))
      ]_vars

(* C20, amended: the shortcut character shown on entering Tangent is the    *)
(* lowercase of the TangentModeKey setting when the setting is exactly one  *)
(* byte long (one character of one byte), and 't' when it is unset, empty,  *)
(* several characters or one character of several bytes.                    *)
C20_ShortcutShown ==
    [][Issued("toggle") /\ ~InTangent =>
           stderr' = CheckpointWarning \o
               <<MsgEntered,
                 Shortcut(
                     IF /\ tangent_mode_key # None
                        /\ Len(tangent_mode_key[1]) = 1
                        /\ len_utf8(tangent_mode_key[1][1]) = 1
                     THEN to_lowercase(tangent_mode_key[1][1])
                     ELSE "t"),
                 MsgRestore>>
      ]_vars

\* C20 witness: the branch was entered with the one-byte setting "T", shown as "ctrl + t"
C20_Witness ==
    /\ InTangent
    /\ pc = "prompt"
    /\ subcommand = "toggle"
    /\ tangent_mode_key = Some(<<"T">>)
    /\ Contains(stderr, MsgEntered)
    /\ Contains(stderr, "ctrl + t")

(* Performance metrics *)

\* the request the metrics are computed from, and its token metrics
Sample == metadata[1]

Tokens == Sample.token_metrics[1]

\* calculate has returned a metrics record
Measured == metrics # None /\ metrics[1] # None

Measurement == metrics[1][1]

Max0(x) == IF x > 0 THEN x ELSE 0

\* the last token time calculate uses: time_to_last_token_ms, or the first token time
LastTokenTime ==
    IF Tokens.time_to_last_token_ms = None
    THEN Tokens.time_to_first_token_ms[1]
    ELSE Tokens.time_to_last_token_ms[1]

\* C13: calculate returns no result exactly when token_metrics is absent or
\* time_to_first_token_ms is absent; when both are present it returns a
\* record, whatever the other fields hold.
C13_NoneIffRequiredInputAbsent ==
    metrics # None =>
        ((metrics[1] = None) <=>
            (\/ Sample.token_metrics = None
             \/ Tokens.time_to_first_token_ms = None))

\* a record is returned for a sample with no last-token time, no tokens and
\* a stream end before the request start
C13_Witness ==
    /\ Measured
    /\ Tokens.time_to_last_token_ms = None
    /\ Tokens.total_tokens = 0
    /\ Sample.stream_end_timestamp_ms < Sample.request_start_timestamp_ms

\* C14: total_duration_ms = max(0, stream_end - request_start) and
\* generation_time_ms = max(0, (time_to_last_token or else
\* time_to_first_token) - time_to_first_token), both within the unsigned
\* range, for every timestamp input.
C14_DurationsFloorAtZero ==
    Measured =>
        /\ Measurement.total_duration_ms =
               Max0(Sample.stream_end_timestamp_ms - Sample.request_start_timestamp_ms)
        /\ Measurement.generation_time_ms =
               Max0(LastTokenTime - Tokens.time_to_first_token_ms[1])
        /\ Measurement.total_duration_ms \in 0..MaxU64
        /\ Measurement.generation_time_ms \in 0..MaxU64

\* the stream ends at 0 after a start at the largest timestamp, and the last
\* token precedes the first
C14_Witness ==
    /\ Measured
    /\ Sample.request_start_timestamp_ms = MaxU64
    /\ Sample.stream_end_timestamp_ms = 0
    /\ Tokens.time_to_last_token_ms # None
    /\ Tokens.time_to_last_token_ms[1] < Tokens.time_to_first_token_ms[1]
    /\ Measurement.total_duration_ms = 0
    /\ Measurement.generation_time_ms = 0

\* C15: tokens_per_second is total_tokens * 1000 / generation_time_ms when
\* generation_time_ms > 0 and 0 when it is 0; it is never infinite or NaN;
\* 100 tokens over 2000 ms give 50.
C15_TokensPerSecond ==
    Measured =>
        /\ Measurement.tokens_per_second.kind = "finite"
        /\ Measurement.generation_time_ms > 0 =>
               Measurement.tokens_per_second =
                   Finite(Tokens.total_tokens * 1000, Measurement.generation_time_ms)
        /\ Measurement.generation_time_ms = 0 =>
               Measurement.tokens_per_second = as_f64(0)
        /\ (Tokens.total_tokens = 100 /\ Measurement.generation_time_ms = 2000) =>
               Measurement.tokens_per_second = as_f64(50)

\* 100 tokens between 500 ms and 2500 ms
C15_Witness ==
    /\ Measured
    /\ Tokens.total_tokens = 100
    /\ Tokens.time_to_first_token_ms = Some(500)
    /\ Tokens.time_to_last_token_ms = Some(2500)
    /\ Measurement.generation_time_ms = 2000
    /\ Measurement.tokens_per_second = as_f64(50)

\* C16: average_inter_token_latency_ms is generation_time_ms / (total_tokens - 1)
\* when total_tokens > 1 and 0 when total_tokens is 0 or 1; the divisor is
\* never zero.
C16_InterTokenLatency ==
    Measured =>
        /\ Measurement.average_inter_token_latency_ms.kind = "finite"
        /\ Tokens.total_tokens > 1 =>
               Measurement.average_inter_token_latency_ms =
                   Finite(Measurement.generation_time_ms, Tokens.total_tokens - 1)
        /\ Tokens.total_tokens \in {0, 1} =>
               Measurement.average_inter_token_latency_ms = as_f64(0)

\* no token at all, over a generation time of 2000 ms
C16_Witness ==
    /\ Measured
    /\ Tokens.total_tokens = 0
    /\ Measurement.generation_time_ms = 2000
    /\ Measurement.average_inter_token_latency_ms = as_f64(0)

\* C17: format_comprehensive shows max(0, total_tokens - prompt_tokens) as the
\* completion count: it stays within the unsigned range when
\* prompt_tokens > total_tokens, and when prompt_tokens <= total_tokens the
\* shown prompt and completion counts sum to the shown total; 100 total and
\* 20 prompt give 80.
C17_CompletionTokens ==
    formatted # None =>
        LET shown == formatted[1] IN
        /\ shown.total_tokens = Measurement.total_tokens
        /\ shown.prompt_tokens = Measurement.prompt_tokens
        /\ shown.completion_tokens = Max0(shown.total_tokens - shown.prompt_tokens)
        /\ shown.completion_tokens \in 0..MaxU64
        /\ shown.prompt_tokens <= shown.total_tokens =>
               shown.prompt_tokens + shown.completion_tokens = shown.total_tokens
        /\ (shown.total_tokens = 100 /\ shown.prompt_tokens = 20) =>
               shown.completion_tokens = 80

\* more prompt tokens than tokens in total: 0 completion tokens are shown
C17_Witness ==
    /\ formatted # None
    /\ formatted[1].total_tokens = 20
    /\ formatted[1].prompt_tokens = 100
    /\ formatted[1].completion_tokens = 0

====
